---- MODULE Spec2Model ----
(***************************************************************************)
(* Model of server/events/markdown_renderer.go: MarkdownRenderer.Render.   *)
(*                                                                         *)
(* A Go string is modelled as a sequence of tokens.  Every token is a      *)
(* piece of literal text (a TLA+ string); concatenation of Go strings is   *)
(* \o.  The template texts are cut into tokens so that the pieces the      *)
(* properties look for ("<details>", " * ", "## ", ...) are tokens of      *)
(* their own.  A template is the parse tree text/template builds from the  *)
(* template source; Execute walks the tree the way text/template does.     *)
(***************************************************************************)
EXTENDS Naturals, Sequences, FiniteSets, TLC

VARIABLES res, cmdName, log, verbose, fault, pc, out, out2

vars == <<res, cmdName, log, verbose, fault, pc, out, out2>>

(***************************************************************************)
(* Bounds                                                                  *)
(***************************************************************************)
\* The longest sequence of project results of a response.
MaxResults == 2
\* The longest sequence of project results when template execution may fail.
MaxFaultResults == 1

(***************************************************************************)
(* Go values                                                               *)
(***************************************************************************)
\* A nil pointer / nil error is the empty sequence, a set one is <<value>>.
Nil == <<>>
Some(v) == <<v>>

\* The empty Go string.
Empty == <<>>

\* errors.New(msg).Error() of a non-nil error value.
ErrorString(e) == e[1]

(***************************************************************************)
(* CommandName and strings.Title                                           *)
(***************************************************************************)
CommandNames == {"Plan", "Apply", "Help"}
Help == "Help"

\* CommandName.String(): the lower-case name, one token per character.
CommandNameString(c) ==
    CASE c = "Plan" -> <<"p", "l", "a", "n">>
      [] c = "Apply" -> <<"a", "p", "p", "l", "y">>
      [] c = "Help" -> <<"h", "e", "l", "p">>

LowerLetters == {"a", "e", "h", "l", "n", "p", "y"}
UpperLetters == {"A", "E", "H", "L", "N", "P", "Y"}

IsLetter(ch) == ch \in LowerLetters \cup UpperLetters

ToUpper(ch) ==
    CASE ch = "a" -> "A"
      [] ch = "e" -> "E"
      [] ch = "h" -> "H"
      [] ch = "l" -> "L"
      [] ch = "n" -> "N"
      [] ch = "p" -> "P"
      [] ch = "y" -> "Y"
      [] OTHER -> ch

\* strings.Title: the first letter of every word is upper-cased, the rest of
\* the string is unchanged.
Title(s) ==
    [i \in 1..Len(s) |->
        IF i = 1 \/ ~IsLetter(s[i - 1]) THEN ToUpper(s[i]) ELSE s[i]]

(***************************************************************************)
(* Paths and the order of Go strings                                       *)
(***************************************************************************)
Paths == {<<"a">>, <<"a", "b">>, <<"b">>}

CharCode(ch) == CASE ch = "a" -> 97 [] ch = "b" -> 98

\* Go's < on strings: bytewise lexicographic order.
RECURSIVE StringLess(_, _)
StringLess(s, t) ==
    IF t = <<>> THEN FALSE
    ELSE IF s = <<>> THEN TRUE
    ELSE IF CharCode(Head(s)) # CharCode(Head(t))
         THEN CharCode(Head(s)) < CharCode(Head(t))
    ELSE StringLess(Tail(s), Tail(t))

(***************************************************************************)
(* Go maps.  A map[string]string is a function from its keys to its        *)
(* values.  The order in which the runtime walks a map is unspecified: a   *)
(* seed, some enumeration of the keys, stands for the order the runtime    *)
(* happens to use.                                                         *)
(***************************************************************************)
EmptyMap == [k \in {} |-> <<>>]

\* MapStore with the bug of keeping the value a key already has.
MapStoreKeepFirst(m, k, v) ==
    [x \in DOMAIN m \cup {k} |-> IF x \in DOMAIN m THEN m[x] ELSE v]

\* results[k] = v
MapStore(m, k, v) == [x \in DOMAIN m \cup {k} |-> IF x = k THEN v ELSE m[x]]

\* The enumerations without repetition of the set S.
Orderings(S) ==
    {ks \in [1..Cardinality(S) -> S] : \A i, j \in DOMAIN ks : i # j => ks[i] # ks[j]}

\* The orders in which the runtime may walk a map with the keys of pathResults.
Seeds(pathResults) == Orderings({pathResults[i].Path : i \in DOMAIN pathResults})

\* The keys of m in the runtime's order.
MapKeys(m, seed) == SelectSeq(seed, LAMBDA k : k \in DOMAIN m)

\* InsertSorted with the comparison the wrong way round.
RECURSIVE InsertSortedDescending(_, _)
InsertSortedDescending(k, s) ==
    IF s = <<>> THEN <<k>>
    ELSE IF StringLess(Head(s), k) THEN <<k>> \o s
    ELSE <<Head(s)>> \o InsertSortedDescending(k, Tail(s))

\* sort.Strings as insertion sort.
RECURSIVE InsertSorted(_, _)
InsertSorted(k, s) ==
    IF s = <<>> THEN <<k>>
    ELSE IF StringLess(k, Head(s)) THEN <<k>> \o s
    ELSE <<Head(s)>> \o InsertSorted(k, Tail(s))

RECURSIVE SortKeys(_)
SortKeys(s) == IF s = <<>> THEN <<>> ELSE InsertSorted(Head(s), SortKeys(Tail(s)))

\* RangeKeys with the bug of walking the map in the runtime's order.
RangeKeysUnsorted(m, seed) == MapKeys(m, seed)

\* text/template's range over a map visits the keys in sorted order.
RangeKeys(m, seed) == SortKeys(MapKeys(m, seed))

(***************************************************************************)
(* Templates: the parse trees of the template sources.                     *)
(*   Text(s)       literal text                                            *)
(*   Field(f)      {{.f}}                                                  *)
(*   LenOf(f)      {{ len .f }}                                            *)
(*   IfField(f, b) {{if .f}} b {{end}}                                     *)
(*   RangeOf(f, b) {{ range $path, $result := .f }} b {{end}}              *)
(*   Var(v)        {{$path}} or {{$result}} inside a range                 *)
(***************************************************************************)
Text(s) == [k |-> "text", s |-> s]
Field(f) == [k |-> "field", f |-> f]
LenOf(f) == [k |-> "len", f |-> f]
IfField(f, b) == [k |-> "if", f |-> f, body |-> b]
RangeOf(f, b) == [k |-> "range", f |-> f, body |-> b]
Var(v) == [k |-> "var", v |-> v]

\* The backquote character (a TLA+ string cannot hold one) and the code fence.
BQ == "\\x60"
Fence == <<BQ, BQ, BQ>>

DetailsOpen == "<details>"
SummaryLog == "<summary>Log</summary>"

\* logTmpl with the bug of not testing .Verbose.
logTmplAlways ==
    << Text(<<"\n", DetailsOpen, SummaryLog, "\n  <p>\n\n">> \o Fence \o <<"\n">>),
       Field("Log"),
       Text(Fence \o <<"\n</p></details>">>),
       Text(<<"\n">>) >>

logTmpl ==
    << IfField("Verbose",
           << Text(<<"\n", DetailsOpen, SummaryLog, "\n  <p>\n\n">> \o Fence \o <<"\n">>),
              Field("Log"),
              Text(Fence \o <<"\n</p></details>">>) >>),
       Text(<<"\n">>) >>

helpTmpl ==
    [name |-> "helpTmpl",
     nodes |-> << Text(Fence \o <<
        "cmake\n",
        "atlantis - Terraform collaboration tool that enables you to collaborate on infrastructure\n",
        "safely and securely.\n",
        "\n",
        "Usage: atlantis <command> [workspace] [--verbose]\n",
        "\n",
        "Commands:\n",
        "plan           Runs 'terraform plan' on the files changed in the pull request\n",
        "apply          Runs 'terraform apply' using the plans generated by 'atlantis plan'\n",
        "help           Get help\n",
        "\n",
        "Examples:\n",
        "\n",
        "# Generates a plan for staging workspace\n",
        "atlantis plan staging\n",
        "\n",
        "# Generates a plan for a standalone terraform project\n",
        "atlantis plan\n",
        "\n",
        "# Applies a plan for staging workspace\n",
        "atlantis apply staging\n",
        "\n",
        "# Applies a plan for a standalone terraform project\n",
        "atlantis apply\n" >>) >>]

singleProjectTmpl ==
    [name |-> "singleProjectTmpl",
     nodes |-> << RangeOf("Results", << Var("result") >>), Text(<<"\n">>) >> \o logTmpl]

\* multiProjectTmpl with the bug of closing the range before the rule.
multiProjectTmplOneRule ==
    [name |-> "multiProjectTmpl",
     nodes |-> << Text(<<"Ran ">>), Field("Command"), Text(<<" in ">>), LenOf("Results"),
                  Text(<<" directories:\n">>),
                  RangeOf("Results", << Text(<<" * ", BQ>>), Var("path"), Text(<<BQ, "\n">>) >>),
                  Text(<<"\n">>),
                  RangeOf("Results", << Text(<<"## ">>), Var("path"), Text(<<"/\n">>),
                                        Var("result"), Text(<<"\n">>) >>),
                  Text(<<"---\n">>) >>
               \o logTmpl]

multiProjectTmpl ==
    [name |-> "multiProjectTmpl",
     nodes |-> << Text(<<"Ran ">>), Field("Command"), Text(<<" in ">>), LenOf("Results"),
                  Text(<<" directories:\n">>),
                  RangeOf("Results", << Text(<<" * ", BQ>>), Var("path"), Text(<<BQ, "\n">>) >>),
                  Text(<<"\n">>),
                  RangeOf("Results", << Text(<<"## ">>), Var("path"), Text(<<"/\n">>),
                                        Var("result"), Text(<<"\n", "---\n">>) >>) >>
               \o logTmpl]

planSuccessTmpl ==
    [name |-> "planSuccessTmpl",
     nodes |-> << Text(Fence \o <<"diff\n">>), Field("TerraformOutput"),
                  Text(<<"\n">> \o Fence
                       \o <<"\n", "\n", "* To **discard** this plan click [here](">>),
                  Field("LockURL"), Text(<<").">>) >>]

applySuccessTmpl ==
    [name |-> "applySuccessTmpl",
     nodes |-> << Text(Fence \o <<"diff\n">>), Field("Output"),
                  Text(<<"\n">> \o Fence) >>]

errTmplText ==
    << Text(<<"**">>), Field("Command"), Text(<<" Error**\n">> \o Fence \o <<"\n">>),
       Field("Error"), Text(<<"\n">> \o Fence \o <<"\n">>) >>

errTmpl == [name |-> "errTmpl", nodes |-> errTmplText]

errWithLogTmpl == [name |-> "errWithLogTmpl", nodes |-> errTmplText \o logTmpl]

failureTmplText ==
    << Text(<<"**">>), Field("Command"), Text(<<" Failed**: ">>), Field("Failure"),
       Text(<<"\n">>) >>

failureTmpl == [name |-> "failureTmpl", nodes |-> failureTmplText]

failureWithLogTmpl == [name |-> "failureWithLogTmpl", nodes |-> failureTmplText \o logTmpl]

TemplateNames ==
    {"helpTmpl", "singleProjectTmpl", "multiProjectTmpl", "planSuccessTmpl",
     "applySuccessTmpl", "errTmpl", "errWithLogTmpl", "failureTmpl", "failureWithLogTmpl"}

(***************************************************************************)
(* Template execution.  The result is the pair of the error Execute        *)
(* returns (Nil when there is none) and the bytes written to the buffer.   *)
(* fault names the template whose execution the engine reports as failed;  *)
(* NoFault when there is none.                                             *)
(***************************************************************************)
NoFault == "none"

Written(s) == [err |-> Nil, buf |-> s]
Failed(msg) == [err |-> Some(msg), buf |-> <<>>]

\* The data have the field f: nil data (the empty function) have none.
HasField(data, f) == f \in DOMAIN data

RECURSIVE ExecNodes(_, _, _, _)
RECURSIVE ExecRange(_, _, _, _, _)

ExecNode(n, data, dot, seed) ==
    CASE n.k = "text" -> Written(n.s)
      [] n.k = "var" -> Written(dot[n.v])
      [] n.k \in {"field", "len", "if", "range"} ->
            IF ~HasField(data, n.f)
            THEN Failed(<<"can't evaluate field ", n.f>>)
            ELSE CASE n.k = "field" -> Written(data[n.f])
                   [] n.k = "len" -> Written(<<ToString(Cardinality(DOMAIN data[n.f]))>>)
                   [] n.k = "if" ->
                        IF data[n.f] THEN ExecNodes(n.body, data, dot, seed)
                        ELSE Written(<<>>)
                   [] n.k = "range" ->
                        ExecRange(RangeKeys(data[n.f], seed), n.body, data, data[n.f], seed)

ExecNodes(nodes, data, dot, seed) ==
    IF nodes = <<>> THEN Written(<<>>)
    ELSE LET first == ExecNode(Head(nodes), data, dot, seed)
         IN  IF first.err # Nil THEN first
             ELSE LET rest == ExecNodes(Tail(nodes), data, dot, seed)
                  IN  [err |-> rest.err, buf |-> first.buf \o rest.buf]

ExecRange(keys, body, data, m, seed) ==
    IF keys = <<>> THEN Written(<<>>)
    ELSE LET first == ExecNodes(body, data, [path |-> Head(keys), result |-> m[Head(keys)]], seed)
         IN  IF first.err # Nil THEN first
             ELSE LET rest == ExecRange(Tail(keys), body, data, m, seed)
                  IN  [err |-> rest.err, buf |-> first.buf \o rest.buf]

\* tmpl.Execute(buf, data)
Execute(tmpl, data, seed, flt) ==
    IF flt = tmpl.name THEN Failed(<<"template: execution failed">>)
    ELSE ExecNodes(tmpl.nodes, data, <<>>, seed)

\* renderTemplate with the bug of dropping the error of Execute.
renderTemplateIgnoreErr(tmpl, data, seed, flt) == Execute(tmpl, data, seed, flt).buf

\* MarkdownRenderer.renderTemplate
renderTemplate(tmpl, data, seed, flt) ==
    LET r == Execute(tmpl, data, seed, flt)
    IN  IF r.err # Nil
        THEN <<"Failed to render template, this is a bug: ">> \o ErrorString(r.err)
        ELSE r.buf

(***************************************************************************)
(* The renderer                                                            *)
(***************************************************************************)
CommonData(command, vb, lg) == [Command |-> command, Verbose |-> vb, Log |-> lg]

ErrData(e, common) ==
    [Error |-> e, Command |-> common.Command, Verbose |-> common.Verbose, Log |-> common.Log]

FailureData(f, common) ==
    [Failure |-> f, Command |-> common.Command, Verbose |-> common.Verbose, Log |-> common.Log]

ResultData(results, common) ==
    [Results |-> results, Command |-> common.Command, Verbose |-> common.Verbose,
     Log |-> common.Log]

NoTemplate == <<"Found no template. This is a bug!">>

\* renderResult with the bug of testing Failure before Error.
renderResultFailureFirst(result, common, seed, flt) ==
    IF result.Failure # Empty
    THEN renderTemplate(failureTmpl,
             [Command |-> common.Command, Failure |-> result.Failure], seed, flt)
    ELSE IF result.Error # Nil
    THEN renderTemplate(errTmpl,
             [Command |-> common.Command, Error |-> ErrorString(result.Error)], seed, flt)
    ELSE IF result.PlanSuccess # Nil
    THEN renderTemplate(planSuccessTmpl, result.PlanSuccess[1], seed, flt)
    ELSE IF result.ApplySuccess # Empty
    THEN renderTemplate(applySuccessTmpl, [Output |-> result.ApplySuccess], seed, flt)
    ELSE NoTemplate

\* renderResult with the bug of rendering errors and failures with the
\* templates that carry the log.
renderResultWithLog(result, common, seed, flt) ==
    IF result.Error # Nil
    THEN renderTemplate(errWithLogTmpl, ErrData(ErrorString(result.Error), common), seed, flt)
    ELSE IF result.Failure # Empty
    THEN renderTemplate(failureWithLogTmpl, FailureData(result.Failure, common), seed, flt)
    ELSE IF result.PlanSuccess # Nil
    THEN renderTemplate(planSuccessTmpl, result.PlanSuccess[1], seed, flt)
    ELSE IF result.ApplySuccess # Empty
    THEN renderTemplate(applySuccessTmpl, [Output |-> result.ApplySuccess], seed, flt)
    ELSE NoTemplate

\* The body of the loop of renderProjectResults: the rendering of one result.
renderResult(result, common, seed, flt) ==
    IF result.Error # Nil
    THEN renderTemplate(errTmpl,
             [Command |-> common.Command, Error |-> ErrorString(result.Error)], seed, flt)
    ELSE IF result.Failure # Empty
    THEN renderTemplate(failureTmpl,
             [Command |-> common.Command, Failure |-> result.Failure], seed, flt)
    ELSE IF result.PlanSuccess # Nil
    THEN renderTemplate(planSuccessTmpl, result.PlanSuccess[1], seed, flt)
    ELSE IF result.ApplySuccess # Empty
    THEN renderTemplate(applySuccessTmpl, [Output |-> result.ApplySuccess], seed, flt)
    ELSE NoTemplate

\* The loop of renderProjectResults: results after the first n results.
RECURSIVE buildResults(_, _, _, _, _)
buildResults(pathResults, n, common, seed, flt) ==
    IF n = 0 THEN EmptyMap
    ELSE MapStore(buildResults(pathResults, n - 1, common, seed, flt),
                  pathResults[n].Path,
                  renderResult(pathResults[n], common, seed, flt))

\* outerTmpl with the bug of taking the single-project template for an
\* empty map as well.
outerTmplAtMostOne(results) ==
    IF Cardinality(DOMAIN results) <= 1 THEN singleProjectTmpl ELSE multiProjectTmpl

\* The choice of the outer template.
outerTmpl(results) ==
    IF Cardinality(DOMAIN results) = 1 THEN singleProjectTmpl ELSE multiProjectTmpl

\* MarkdownRenderer.renderProjectResults
renderProjectResults(pathResults, common, seed, flt) ==
    LET results == buildResults(pathResults, Len(pathResults), common, seed, flt)
    IN  renderTemplate(outerTmpl(results), ResultData(results, common), seed, flt)

\* Render with the bug of testing res.Failure before res.Error.
RenderFailureFirst(r, c, lg, vb, seed, flt) ==
    IF c = Help THEN renderTemplate(helpTmpl, <<>>, seed, flt)
    ELSE LET commandStr == Title(CommandNameString(c))
             common == CommonData(commandStr, vb, lg)
         IN  IF r.Failure # Empty
             THEN renderTemplate(failureWithLogTmpl, FailureData(r.Failure, common), seed, flt)
             ELSE IF r.Error # Nil
             THEN renderTemplate(errWithLogTmpl, ErrData(ErrorString(r.Error), common), seed, flt)
             ELSE renderProjectResults(r.ProjectResults, common, seed, flt)

\* MarkdownRenderer.Render
Render(r, c, lg, vb, seed, flt) ==
    IF c = Help THEN renderTemplate(helpTmpl, <<>>, seed, flt)
    ELSE LET commandStr == Title(CommandNameString(c))
             common == CommonData(commandStr, vb, lg)
         IN  IF r.Error # Nil
             THEN renderTemplate(errWithLogTmpl, ErrData(ErrorString(r.Error), common), seed, flt)
             ELSE IF r.Failure # Empty
             THEN renderTemplate(failureWithLogTmpl, FailureData(r.Failure, common), seed, flt)
             ELSE renderProjectResults(r.ProjectResults, common, seed, flt)

(***************************************************************************)
(* Inputs of Render                                                        *)
(***************************************************************************)
\* The opening of the log block, as text a caller may supply as well.
Marker == <<DetailsOpen, SummaryLog>>

Logs == {<<"xyz">>, Marker \o <<"xyz">>}

Messages == {<<"boom">>, Marker}

PlanSuccessValue == [TerraformOutput |-> <<"+1">>, LockURL |-> <<"u">>]

Option(S) == {Nil} \cup {Some(v) : v \in S}

ProjectResult(p, e, f, ps, as) ==
    [Path |-> p, Error |-> e, Failure |-> f, PlanSuccess |-> ps, ApplySuccess |-> as]

\* Project results as the engine is expected to build them: one of the four
\* variants populated, or (the case the renderer reports as a bug) none.
ProjectResults ==
    UNION { { ProjectResult(p, Some(<<"x">>), Empty, Nil, Empty),
              ProjectResult(p, Nil, <<"locked">>, Nil, Empty),
              ProjectResult(p, Nil, Empty, Some(PlanSuccessValue), Empty),
              ProjectResult(p, Nil, Empty, Nil, <<"done">>),
              ProjectResult(p, Nil, Empty, Nil, Empty) } : p \in Paths }

\* Every way of populating the fields of a project result, several at once
\* included.
AnyProjectResults ==
    { ProjectResult(p, e, f, ps, as) :
        p \in Paths, e \in Option({<<"x">>}), f \in {Empty, <<"locked">>, Marker},
        ps \in Option({PlanSuccessValue}), as \in {Empty, <<"done">>} }

SeqUpTo(S, n) == UNION {[1..m -> S] : m \in 0..n}

CommandResponse(e, f, prs) == [Error |-> e, Failure |-> f, ProjectResults |-> prs]

Input(r, c, lg, vb) == [res |-> r, cmdName |-> c, log |-> lg, verbose |-> vb]

\* Responses that carry up to n project results only.
ResultInputs(n) ==
    { Input(CommandResponse(Nil, Empty, prs), c, lg, vb) :
        prs \in SeqUpTo(ProjectResults, n), c \in CommandNames \ {Help},
        lg \in Logs, vb \in BOOLEAN }

\* Responses that carry one project result, populated in any way.
SingleResultInputs ==
    { Input(CommandResponse(Nil, Empty, <<pr>>), c, lg, vb) :
        pr \in AnyProjectResults, c \in CommandNames \ {Help},
        lg \in Logs, vb \in BOOLEAN }

\* Responses with any combination of a global error, a global failure and
\* project results, for every command.
GlobalInputs ==
    { Input(CommandResponse(e, f, prs), c, lg, vb) :
        e \in Option(Messages), f \in {Empty} \cup Messages,
        prs \in SeqUpTo({pr \in ProjectResults : pr.Path = <<"a">>}, 1),
        c \in CommandNames, lg \in Logs, vb \in BOOLEAN }

Inputs == ResultInputs(MaxResults) \cup SingleResultInputs \cup GlobalInputs

FaultInputs ==
    { i \in ResultInputs(MaxFaultResults) \cup GlobalInputs : i.log = <<"xyz">> }

Faults == {NoFault} \cup TemplateNames

(***************************************************************************)
(* The state machine: a caller holds the arguments of a call, calls        *)
(* Render, and calls it once more with the same arguments.                 *)
(***************************************************************************)
InitWith(ins, faults) ==
    /\ \E i \in ins :
          /\ res = i.res
          /\ cmdName = i.cmdName
          /\ log = i.log
          /\ verbose = i.verbose
    /\ fault \in faults
    /\ pc = "start"
    /\ out = <<>>
    /\ out2 = <<>>

Init == InitWith(Inputs, {NoFault})

InitFault == InitWith(FaultInputs, Faults)

CallRender ==
    /\ pc = "start"
    /\ \E seed \in Seeds(res.ProjectResults) : out' = Render(res, cmdName, log, verbose, seed, fault)
    /\ pc' = "done"
    /\ UNCHANGED <<res, cmdName, log, verbose, fault, out2>>

CallRenderAgain ==
    /\ pc = "done"
    /\ \E seed \in Seeds(res.ProjectResults) : out2' = Render(res, cmdName, log, verbose, seed, fault)
    /\ pc' = "again"
    /\ UNCHANGED <<res, cmdName, log, verbose, fault, out>>

Next == CallRender \/ CallRenderAgain

Spec == Init /\ [][Next]_vars

SpecFault == InitFault /\ [][Next]_vars

(***************************************************************************)
(* Vocabulary of the properties.  The texts below are written out from     *)
(* the output contract, independently of the parse trees above.            *)
(***************************************************************************)
\* Render has returned out, and the caller has not gone on.
Done == pc = "done"

IsHelp == cmdName = Help
ErrorBranch == ~IsHelp /\ res.Error # Nil
FailureBranch == ~IsHelp /\ res.Error = Nil /\ res.Failure # Empty
ResultsBranch == ~IsHelp /\ res.Error = Nil /\ res.Failure = Empty

Contains(s, tok) == \E i \in DOMAIN s : s[i] = tok

Occurrences(part, s) ==
    {i \in 1..Len(s) : i + Len(part) - 1 <= Len(s) /\ SubSeq(s, i, i + Len(part) - 1) = part}

IsSubSeq(part, s) == Occurrences(part, s) # {}

StartsWith(s, prefix) == Len(prefix) <= Len(s) /\ SubSeq(s, 1, Len(prefix)) = prefix

\* The command as it appears in the output.
CommandToken ==
    CASE cmdName = "Plan" -> <<"P", "l", "a", "n">>
      [] cmdName = "Apply" -> <<"A", "p", "p", "l", "y">>
      [] cmdName = "Help" -> <<"H", "e", "l", "p">>

LogBlock ==
    Marker \o <<"\n  <p>\n\n", BQ, BQ, BQ, "\n">> \o log \o <<BQ, BQ, BQ, "\n</p></details>">>

LogFragment == IF verbose THEN <<"\n">> \o LogBlock \o <<"\n">> ELSE <<"\n">>

ErrorFraming(msg) ==
    <<"**">> \o CommandToken \o <<" Error**\n", BQ, BQ, BQ, "\n">> \o msg
        \o <<"\n", BQ, BQ, BQ, "\n">>

FailureFraming(msg) == <<"**">> \o CommandToken \o <<" Failed**: ">> \o msg \o <<"\n">>

PlanRendering(ps) ==
    <<BQ, BQ, BQ, "diff\n">> \o ps.TerraformOutput
        \o <<"\n", BQ, BQ, BQ, "\n", "\n", "* To **discard** this plan click [here](">>
        \o ps.LockURL \o <<").">>

ApplyRendering(output) == <<BQ, BQ, BQ, "diff\n">> \o output \o <<"\n", BQ, BQ, BQ>>

\* The inner rendering of one project result, by precedence.
InnerRendering(r) ==
    IF r.Error # Nil THEN ErrorFraming(r.Error[1])
    ELSE IF r.Failure # Empty THEN FailureFraming(r.Failure)
    ELSE IF r.PlanSuccess # Nil THEN PlanRendering(r.PlanSuccess[1])
    ELSE IF r.ApplySuccess # Empty THEN ApplyRendering(r.ApplySuccess)
    ELSE <<"Found no template. This is a bug!">>

PathsOf(prs) == {prs[i].Path : i \in DOMAIN prs}

DistinctPaths == PathsOf(res.ProjectResults)

NumPaths == Cardinality(DistinctPaths)

\* The last result of the input that carries the path p.
LastOf(p) ==
    LET prs == res.ProjectResults
        i == CHOOSE i \in DOMAIN prs :
                 prs[i].Path = p /\ \A j \in DOMAIN prs : j > i => prs[j].Path # p
    IN  prs[i]

PairwiseDistinct(prs) == \A i, j \in DOMAIN prs : i # j => prs[i].Path # prs[j].Path

\* The header of the multi-project output for n directories.
Header(n) == <<"Ran ">> \o CommandToken \o <<" in ", ToString(n), " directories:\n">>

RECURSIVE Bullets(_)
Bullets(ks) ==
    IF ks = <<>> THEN <<>>
    ELSE <<" * ", BQ>> \o Head(ks) \o <<BQ, "\n">> \o Bullets(Tail(ks))

Section(p) == <<"## ">> \o p \o <<"/\n">> \o InnerRendering(LastOf(p)) \o <<"\n", "---\n">>

RECURSIVE Sections(_)
Sections(ks) == IF ks = <<>> THEN <<>> ELSE Section(Head(ks)) \o Sections(Tail(ks))

\* The multi-project output that lists the paths in the order ks.
MultiOutput(ks) ==
    Header(Len(ks)) \o Bullets(ks) \o <<"\n">> \o Sections(ks) \o LogFragment

\* One of the orders the runtime may walk the map in.
TheSeed == CHOOSE seed \in Seeds(res.ProjectResults) : TRUE

(***************************************************************************)
(* C1                                                                      *)
(***************************************************************************)
\* C1: Render dispatches first-match-wins: Help gives the static help text
\* whatever res, log and verbose are; otherwise a set res.Error gives the
\* error framing built from res.Error alone; otherwise a non-empty
\* res.Failure gives the failure framing; only otherwise are the project
\* results rendered.
C1_DispatchOrder ==
    Done =>
        IF IsHelp THEN out = helpTmpl.nodes[1].s
        ELSE IF res.Error # Nil THEN out = ErrorFraming(res.Error[1]) \o LogFragment
        ELSE IF res.Failure # Empty THEN out = FailureFraming(res.Failure) \o LogFragment
        ELSE out = renderProjectResults(res.ProjectResults,
                       CommonData(CommandToken, verbose, log), TheSeed, fault)

C1_Witness ==
    /\ Done
    /\ ~IsHelp
    /\ res.Error # Nil
    /\ res.Failure # Empty
    /\ res.ProjectResults # <<>>
    /\ out = ErrorFraming(res.Error[1]) \o LogFragment

(***************************************************************************)
(* C2                                                                      *)
(***************************************************************************)
HasHeader == \E n \in 0..Len(res.ProjectResults) : IsSubSeq(Header(n), out)

\* C2 as claimed: in the results branch the output contains the header
\* "Ran {Cmd} in N directories:" iff len(ProjectResults) # 1.
C2_HeaderIffLenNotOne ==
    (Done /\ ResultsBranch) => (HasHeader <=> Len(res.ProjectResults) # 1)

\* C2 as amended: in the results branch the output begins with the header
\* "Ran {Cmd} in N directories:", N the number of distinct paths, iff the
\* number of distinct paths among ProjectResults is not 1.
C2_HeaderIffPathsNotOne ==
    (Done /\ ResultsBranch) => (StartsWith(out, Header(NumPaths)) <=> NumPaths # 1)

C2_Witness ==
    /\ Done
    /\ ResultsBranch
    /\ Len(res.ProjectResults) = 2
    /\ NumPaths = 1
    /\ ~HasHeader
    /\ ~StartsWith(out, Header(NumPaths))

(***************************************************************************)
(* C3                                                                      *)
(***************************************************************************)
\* C3: every project result is rendered by exactly one inner rendering,
\* chosen by the precedence Error > Failure > PlanSuccess > ApplySuccess,
\* the sentinel "Found no template. This is a bug!" when none of the four is
\* populated; a populated field of lower precedence does not change it.
C3_InnerPrecedence ==
    (Done /\ ResultsBranch) =>
        \A p \in DistinctPaths :
            IF NumPaths = 1
            THEN out = InnerRendering(LastOf(p)) \o <<"\n">> \o LogFragment
            ELSE IsSubSeq(Section(p), out)

C3_Witness ==
    /\ Done
    /\ ResultsBranch
    /\ \E i \in DOMAIN res.ProjectResults :
          LET r == res.ProjectResults[i]
          IN  /\ r.Error # Nil
              /\ r.Failure # Empty
              /\ r.PlanSuccess # Nil
              /\ r.ApplySuccess # Empty
              /\ IsSubSeq(ErrorFraming(r.Error[1]), out)

(***************************************************************************)
(* C4                                                                      *)
(***************************************************************************)
TextsOfOption(o) == {o[i] : i \in DOMAIN o}

\* Every text a response carries.
TextsOfResult(r) ==
    {r.Path, r.Failure, r.ApplySuccess} \cup TextsOfOption(r.Error)
        \cup {r.PlanSuccess[i].TerraformOutput : i \in DOMAIN r.PlanSuccess}
        \cup {r.PlanSuccess[i].LockURL : i \in DOMAIN r.PlanSuccess}

TextsOfRes ==
    {res.Failure} \cup TextsOfOption(res.Error)
        \cup UNION {TextsOfResult(res.ProjectResults[i]) : i \in DOMAIN res.ProjectResults}

NoDetailsInRes == \A t \in TextsOfRes : ~Contains(t, DetailsOpen)

\* C4 as claimed: with verbose false no output contains "<details>",
\* whatever cmd, res and log are.
C4_NoDetailsWhenQuiet == (Done /\ ~verbose) => ~Contains(out, DetailsOpen)

\* C4 as amended: with verbose false the output contains no "<details>",
\* whatever cmd and log are, for every res none of whose texts contains
\* "<details>"; the log fragment is then a single trailing newline, and the
\* output does not depend on the log.
C4_NoDetailsWhenQuietRes ==
    (Done /\ ~verbose) =>
        /\ NoDetailsInRes => ~Contains(out, DetailsOpen)
        /\ ~IsHelp => out[Len(out)] = "\n"
        /\ \A lg \in Logs : Render(res, cmdName, lg, verbose, TheSeed, fault) = out

C4_Witness ==
    /\ Done
    /\ ~verbose
    /\ ~IsHelp
    /\ NoDetailsInRes
    /\ Contains(log, DetailsOpen)
    /\ ~Contains(out, DetailsOpen)

(***************************************************************************)
(* C5                                                                      *)
(***************************************************************************)
\* C5 as claimed: with verbose true and cmd not Help the output contains
\* exactly one "<details><summary>Log</summary>" block, and its body holds
\* the log, whatever the branch and the number of project results.
C5_OneLogBlock ==
    (Done /\ verbose /\ ~IsHelp) =>
        /\ Cardinality(Occurrences(Marker, out)) = 1
        /\ IsSubSeq(LogBlock, out)

\* C5 as amended: with verbose true and cmd not Help the output contains
\* exactly one "<details><summary>Log</summary>" block, the last thing of
\* the output but a newline, and its body holds the log, whatever the branch
\* and the number of project results, when neither the log nor a text of res
\* contains "<details>"; for any log and res the output ends with that block.
C5_OneLogBlockRes ==
    (Done /\ verbose /\ ~IsHelp) =>
        /\ (NoDetailsInRes /\ ~Contains(log, DetailsOpen)) =>
               Cardinality(Occurrences(Marker, out)) = 1
        /\ Len(out) > Len(LogFragment)
        /\ SubSeq(out, Len(out) - Len(LogFragment) + 1, Len(out)) = LogFragment

C5_Witness ==
    /\ Done
    /\ verbose
    /\ ResultsBranch
    /\ NumPaths = 2
    /\ \E i \in DOMAIN res.ProjectResults : res.ProjectResults[i].Error # Nil
    /\ NoDetailsInRes
    /\ ~Contains(log, DetailsOpen)
    /\ Cardinality(Occurrences(Marker, out)) = 1

(***************************************************************************)
(* C6                                                                      *)
(***************************************************************************)
\* The template Render executes last.
TopTemplate ==
    IF IsHelp THEN "helpTmpl"
    ELSE IF res.Error # Nil THEN "errWithLogTmpl"
    ELSE IF res.Failure # Empty THEN "failureWithLogTmpl"
    ELSE IF NumPaths = 1 THEN "singleProjectTmpl"
    ELSE "multiProjectTmpl"

NoticePrefix == "Failed to render template, this is a bug: "

\* The template the rendering of the project result r executes, if any.
InnerTemplate(r) ==
    IF r.Error # Nil THEN "errTmpl"
    ELSE IF r.Failure # Empty THEN "failureTmpl"
    ELSE IF r.PlanSuccess # Nil THEN "planSuccessTmpl"
    ELSE IF r.ApplySuccess # Empty THEN "applySuccessTmpl"
    ELSE "no template"

\* C6: Render is total: it returns a non-empty string for every input, an
\* empty sequence of project results and results with no variant populated
\* included; when the execution of a template fails, the failure becomes the
\* text "Failed to render template, this is a bug: <error>", which is the
\* output when the template is the outer one and the rendering of the
\* project when it is an inner one.
C6_Total ==
    Done =>
        /\ Len(out) > 0
        /\ \A i \in DOMAIN out : out[i] \in STRING
        /\ fault = TopTemplate => (Len(out) = 2 /\ out[1] = NoticePrefix)
        /\ (ResultsBranch /\ NumPaths = 1 /\ fault # TopTemplate) =>
               \A p \in DistinctPaths :
                   fault = InnerTemplate(LastOf(p)) =>
                       (out[1] = NoticePrefix /\ SubSeq(out, 3, Len(out)) = <<"\n">> \o LogFragment)

C6_Witness ==
    /\ Done
    /\ ResultsBranch
    /\ res.ProjectResults = <<>>
    /\ fault = "multiProjectTmpl"
    /\ out[1] = NoticePrefix

(***************************************************************************)
(* C7                                                                      *)
(***************************************************************************)
\* C7: two calls of Render with the same arguments return the same output,
\* whatever order the runtime walks the map of renderings in.
C7_Deterministic == pc = "again" => out2 = out

C7_Witness ==
    /\ pc = "again"
    /\ ResultsBranch
    /\ NumPaths = 2
    /\ out2 = out

(***************************************************************************)
(* C8                                                                      *)
(***************************************************************************)
\* C8: in a multi-project output the number N of the header is the number of
\* bullet lines and the number of sections, the bullets and the sections
\* list the same paths in the same order, and the body of a section is the
\* inner rendering of its path followed by a newline and "---".
C8_MultiShape ==
    (Done /\ ResultsBranch /\ NumPaths # 1) =>
        /\ \E ks \in Orderings(DistinctPaths) : Len(ks) = NumPaths /\ out = MultiOutput(ks)
        /\ StartsWith(out, Header(NumPaths))

C8_Witness ==
    /\ Done
    /\ ResultsBranch
    /\ NumPaths = 2
    /\ StartsWith(out, Header(2))
    /\ \E ks \in Orderings(DistinctPaths) : out = MultiOutput(ks)

(***************************************************************************)
(* C9                                                                      *)
(***************************************************************************)
\* The input with, of the results that share a path, only the last one kept.
RECURSIVE DedupLast(_)
DedupLast(prs) ==
    IF prs = <<>> THEN <<>>
    ELSE IF Head(prs).Path \in PathsOf(Tail(prs)) THEN DedupLast(Tail(prs))
    ELSE <<Head(prs)>> \o DedupLast(Tail(prs))

\* C9: of the results that share a path only the last one is rendered, the
\* earlier ones leave no trace in the output; the outer template and the
\* count N follow the number of distinct paths, so that results that all
\* share one path are rendered with the single-project template.
C9_LastOfDuplicatesWins ==
    (Done /\ ResultsBranch) =>
        /\ out = Render([res EXCEPT !.ProjectResults = DedupLast(@)], cmdName, log, verbose,
                        TheSeed, fault)
        /\ NumPaths = 1 =>
               \A p \in DistinctPaths :
                   out = InnerRendering(LastOf(p)) \o <<"\n">> \o LogFragment
        /\ NumPaths # 1 => StartsWith(out, Header(NumPaths))

C9_Witness ==
    /\ Done
    /\ ResultsBranch
    /\ Len(res.ProjectResults) = 2
    /\ res.ProjectResults[1].Path = res.ProjectResults[2].Path
    /\ InnerRendering(res.ProjectResults[1]) # InnerRendering(res.ProjectResults[2])
    /\ out = InnerRendering(res.ProjectResults[2]) \o <<"\n">> \o LogFragment

(***************************************************************************)
(* C10                                                                     *)
(***************************************************************************)
Permuted(prs, pm) == [i \in 1..Len(prs) |-> prs[pm[i]]]

\* The order of the paths written out.
PathRank(p) ==
    CASE p = <<"a">> -> 1
      [] p = <<"a", "b">> -> 2
      [] p = <<"b">> -> 3

Ascending(S) ==
    CHOOSE ks \in Orderings(S) : \A i, j \in DOMAIN ks : i < j => PathRank(ks[i]) < PathRank(ks[j])

\* C10: for project results with pairwise distinct paths the output does not
\* depend on the order of the input: every permutation of the results gives
\* the same output, and the bullets and sections of the multi-project output
\* are in ascending order of path.
C10_OrderIndependent ==
    (Done /\ ResultsBranch /\ PairwiseDistinct(res.ProjectResults)) =>
        /\ \A pm \in Orderings(1..Len(res.ProjectResults)) :
               Render([res EXCEPT !.ProjectResults = Permuted(@, pm)], cmdName, log, verbose,
                      TheSeed, fault) = out
        /\ NumPaths # 1 => out = MultiOutput(Ascending(DistinctPaths))

C10_Witness ==
    /\ Done
    /\ ResultsBranch
    /\ Len(res.ProjectResults) = 2
    /\ PathRank(res.ProjectResults[1].Path) > PathRank(res.ProjectResults[2].Path)
    /\ out = MultiOutput(<<res.ProjectResults[2].Path, res.ProjectResults[1].Path>>)

====
